---- MODULE Spec2Model ----
(***************************************************************************)
(* Model of the video-analysis pipeline of apps/server/src/index.ts:       *)
(* the handler of POST /api/video/analyze.  One request is followed from   *)
(* the upload to the response; every await of the handler is one step.     *)
(* Times are counted in quarter seconds (ticks): 0.25 s = 1, 3 s = 12.     *)
(***************************************************************************)
EXTENDS Integers, Sequences, FiniteSets, TLC

\* ---------------------------------------------------------------- bounds
MaxCutLines == 1     \* stderr lines of one scene-detection run
MaxMarkers == 4      \* stderr lines of the silence-detection run
MaxItems == 1        \* items of the suggestions array in the model's answer

\* ------------------------------------------------------- optional values
\* A JavaScript value that may be undefined: <<>> is undefined, <<v>> is v.
None == <<>>
Some(v) == <<v>>

SeqsUpTo(S, n) == UNION {[1..k -> S] : k \in 0..n}

RECURSIVE SeqSum(_)
SeqSum(s) == IF s = <<>> THEN 0 ELSE Head(s) + SeqSum(Tail(s))

\* ------------------------------------------------------------ the inputs
\* format.duration as ffprobe reports it: absent, a non-numeric string
\* ("N/A"), or a number of ticks (quarter seconds).
ProbeDurations ==
  {[kind |-> "nan", v |-> 0], [kind |-> "num", v |-> 5],
   [kind |-> "num", v |-> 96]}

\* A number of the program: NaN or an integer.
NaN == [nan |-> TRUE, v |-> 0]
Num(n) == [nan |-> FALSE, v |-> n]

\* Math.round of a number of ticks/4 (round half up, as Math.round does).
RoundTicks(t) == (t + 2) \div 4

\* Math.round(Number(probe?.format?.duration || 0))
DurationOf(d) ==
  IF d.kind = "missing" THEN Num(0)
  ELSE IF d.kind = "nan" THEN NaN
  ELSE Num(RoundTicks(d.v))

\* pts_time values (ticks) a scene-detection line can carry.
CutTimes == {2, 14}
\* One stderr line of the scene detection: pts is the pts_time it carries
\* (None when it carries none), score says whether it carries scene_score=.
CutLines == {[pts |-> p, score |-> s] :
               p \in {None} \cup {Some(t) : t \in CutTimes}, s \in BOOLEAN}

\* The stderr handler of detectCuts applied to one line.
CutLineHandler(times, line) ==
  LET t1 == IF line.pts # None THEN Append(times, line.pts[1]) ELSE times
  IN  IF line.score /\ line.pts # None THEN Append(t1, line.pts[1]) ELSE t1

RECURSIVE ParseCutLines(_, _)
ParseCutLines(times, lines) ==
  IF lines = <<>> THEN times
  ELSE ParseCutLines(CutLineHandler(times, Head(lines)), Tail(lines))

\* The frames the run reports: the lines that carry a pts_time.
SceneEvents(lines) ==
  Cardinality({i \in 1..Len(lines) : lines[i].pts # None})

\* detectCuts resolves with the collected times on 'end' and on 'error'.
DetectCutsSettle(outcome, times) == [thrown |-> FALSE, value |-> times]

SeqToSet(s) == {s[i] : i \in 1..Len(s)}

RECURSIVE SortedSeq(_)
SortedSeq(S) ==
  IF S = {} THEN <<>>
  ELSE LET m == CHOOSE x \in S : \A y \in S : x <= y
       IN  <<m>> \o SortedSeq(S \ {m})

\* Array.from(new Set([...cutTimestamps, ...loose])).sort((a,b)=>a-b)
UnionSorted(a, b) == SortedSeq(SeqToSet(a) \cup SeqToSet(b))

\* The loose pass is run whatever the strict pass found.
NeedsLooseAlways(times) == TRUE

\* if (cutTimestamps.length === 0): the loose pass is needed
NeedsLoose(times) == Len(times) = 0

\* Marker times (ticks) of the silence detection.
SilTimes == {0, 5, 10, 15}
SilLines == {[kind |-> k, t |-> t] : k \in {"start", "end"}, t \in SilTimes}

\* The stderr handler of the silence detection applied to one line.
SilLineHandler(out, line) ==
  IF line.kind = "start" THEN Append(out, [start |-> line.t, end |-> line.t])
  ELSE IF Len(out) > 0 THEN [out EXCEPT ![Len(out)].end = line.t]
  ELSE out

RECURSIVE ParseSilLines(_, _)
ParseSilLines(out, lines) ==
  IF lines = <<>> THEN out
  ELSE ParseSilLines(SilLineHandler(out, Head(lines)), Tail(lines))

\* (s.end - s.start) >= 0.25
MinGapTicks == 1
Qualifies(s) == s.end - s.start >= MinGapTicks

\* The guard without its test of the count.
SilenceFallbackAnyCount(cuts, sil) == Len(sil) > 1

\* if (cuts === 0 && silences.length > 1)
SilenceFallbackGuard(cuts, sil) == cuts = 0 /\ Len(sil) > 1

Max(a, b) == IF a >= b THEN a ELSE b

\* The number of qualifying intervals itself, not one less.
SilenceCutsGaps(sil) ==
  Cardinality({i \in 1..Len(sil) : Qualifies(sil[i])})

\* Math.max(0, gaps - 1)
SilenceCuts(sil) ==
  Max(0, Cardinality({i \in 1..Len(sil) : Qualifies(sil[i])}) - 1)

\* if (cuts === 0): the frame-diff fallback is needed
FrameFallbackGuard(cuts) == cuts = 0

\* ------------------------------------------------------------- the state
VARIABLES
  pc,      \* position of the handler
  env,     \* the request and the process: file uploaded, openai configured
  fs,      \* the files: workDir, upload (multer's file.path), frames
  loc,     \* the handler's local variables, by their names
  hist,    \* what has run so far: stages, tool failures, calls, throws
  res      \* the response: status, body, number of responses sent

vars == <<pc, env, fs, loc, hist, res>>

\* The ffmpeg invocations of the handler (ffprobe is not one of them).
ToolStages == {"strict", "loose", "silence", "screenshots", "frameSample",
               "audio", "volume", "signalstats"}

NoCalls == [tool |-> 0, ocr |-> 0, transcribe |-> 0, suggest |-> 0,
            critique |-> 0]

Init ==
  /\ pc = "request"
  /\ env \in [file : BOOLEAN, openai : BOOLEAN]
  /\ fs = [workDir |-> "none",
           upload |-> IF env.file THEN "exists" ELSE "none",
           frames |-> FALSE, samples |-> <<>>, audio |-> FALSE]
  /\ loc = [durationSec |-> Num(0), cutTimestamps |-> <<>>, silences |-> <<>>,
            hookText |-> "", captionsPresent |-> FALSE, cuts |-> 0,
            avgCutSec |-> Num(0), transcript |-> None, segments |-> None,
            first2sText |-> <<>>, wordsPerSec |-> None, first3Cuts |-> 0,
            silenceRatio |-> [nan |-> FALSE, num |-> 0, den |-> 4],
            meanDb |-> None, maxDb |-> None,
            firstSecondStats |-> [yavg |-> None, ymin |-> None,
                                  ymax |-> None, contrast |-> None],
            suggestions |-> <<>>, critique |-> None]
  /\ hist = [ran |-> {}, lastTool |-> [stage |-> "none", outcome |-> "end"],
             calls |-> NoCalls,
             thrown |-> "none", probeErr |-> FALSE, trThrew |-> FALSE, sugKind |-> "none",
             strictEvents |-> 0, frameJumps |-> 0,
             critThrew |-> FALSE,
             strictCount |-> 0, visualCount |-> 0,
             silenceCount |-> 0, probed |-> None]
  /\ res = [status |-> 0, body |-> None, sent |-> 0]

\* res.status(code).json(body)
Send(code, body) ==
  res' = [status |-> code, body |-> body, sent |-> res.sent + 1]

\* A throw inside the try block: catch (e) { res.status(500).json(...) }
Catch(stage) ==
  /\ pc' = "done"
  /\ Send(500, Some([error |-> "analysis_failed"]))
  /\ hist' = [hist EXCEPT !.thrown = stage, !.ran = @ \cup {stage}]

Ran(stage) == [hist EXCEPT !.ran = @ \cup {stage}]

\* An ffmpeg invocation was made at a stage and ended with an outcome.
Tool(h, stage, outcome) ==
  [h EXCEPT !.ran = @ \cup {stage},
            !.calls.tool = @ + 1,
            !.lastTool = [stage |-> stage, outcome |-> outcome]]

\* The check of the file is left out.
MissingFileNever(file) == FALSE

\* if (!file) return res.status(400).json({ error: "missing_file" })
MissingFile(file) == ~file

Request ==
  /\ pc = "request"
  /\ IF MissingFile(env.file)
     THEN /\ pc' = "done"
          /\ Send(400, Some([error |-> "missing_file"]))
     ELSE /\ pc' = "mkdtemp"
          /\ UNCHANGED res
  /\ UNCHANGED <<env, fs, loc, hist>>

\* const workDir = await mkdtemp(...): creates the directory or throws.
\* multer's disk storage always sets file.path, so inputPath is the upload
\* and the memory-buffer branch is not taken.
Mkdtemp ==
  /\ pc = "mkdtemp"
  /\ \E ok \in BOOLEAN :
       IF ok
       THEN /\ fs' = [fs EXCEPT !.workDir = "exists"]
            /\ hist' = Ran("mkdtemp")
            /\ pc' = "probe"
            /\ UNCHANGED res
       ELSE /\ Catch("mkdtemp")
            /\ UNCHANGED fs
  /\ UNCHANGED <<env, loc>>

\* ffprobe(inputPath, (err, data) => err ? reject(err) : resolve(data))
ProbeSettle(err) == IF err THEN "reject" ELSE "resolve"

Probe ==
  /\ pc = "probe"
  /\ \E err \in BOOLEAN, d \in ProbeDurations :
       IF ProbeSettle(err) = "reject"
       THEN /\ pc' = "done"
            /\ Send(500, Some([error |-> "analysis_failed"]))
            /\ hist' = [Ran("probe") EXCEPT !.thrown = "probe",
                                            !.probeErr = err]
            /\ UNCHANGED loc
       ELSE /\ loc' = [loc EXCEPT !.durationSec = DurationOf(d)]
            /\ hist' = [Ran("probe") EXCEPT !.probeErr = err,
                                            !.probed = Some(d)]
            /\ pc' = "strict"
            /\ UNCHANGED res
  /\ UNCHANGED <<env, fs>>

\* The inputs one scene-detection run can see: any lines while the input
\* file is there (ended or failed), an error without lines when it is not.
CutRuns ==
  IF fs.upload = "exists"
  THEN {[lines |-> l, outcome |-> o] :
          l \in SeqsUpTo(CutLines, MaxCutLines), o \in {"end", "error"}}
  ELSE {[lines |-> <<>>, outcome |-> "error"]}

\* let cutTimestamps = await detectCuts(0.32)
StrictPass ==
  /\ pc = "strict"
  /\ \E run \in CutRuns :
       LET r == DetectCutsSettle(run.outcome, ParseCutLines(<<>>, run.lines))
       IN  IF r.thrown
           THEN Catch("strict") /\ UNCHANGED loc
           ELSE /\ loc' = [loc EXCEPT !.cutTimestamps = r.value]
                /\ hist' = [Tool(hist, "strict", run.outcome)
                              EXCEPT !.strictCount = Len(r.value),
                                     !.strictEvents = SceneEvents(run.lines),
                                     !.visualCount = Len(r.value)]
                /\ pc' = IF NeedsLoose(r.value) THEN "loose" ELSE "silence"
                /\ UNCHANGED res
  /\ UNCHANGED <<env, fs>>

\* const loose = await detectCuts(0.15); cutTimestamps = union, sorted
LoosePass ==
  /\ pc = "loose"
  /\ \E run \in CutRuns :
       LET r == DetectCutsSettle(run.outcome, ParseCutLines(<<>>, run.lines))
           u == UnionSorted(loc.cutTimestamps, r.value)
       IN  IF r.thrown
           THEN Catch("loose") /\ UNCHANGED loc
           ELSE /\ loc' = [loc EXCEPT !.cutTimestamps = u]
                /\ hist' = [Tool(hist, "loose", run.outcome)
                              EXCEPT !.visualCount = Len(u)]
                /\ pc' = "silence"
                /\ UNCHANGED res
  /\ UNCHANGED <<env, fs>>

\* .on('error', reject): the failure of the tool is thrown.
ToolSettleRejects(outcome) == IF outcome = "error" THEN "reject" ELSE "resolve"

\* .on('end', resolve).on('error', resolve): the other ffmpeg invocations
\* settle their promise the same way on both events.
ToolSettle(outcome) == "resolve"

\* What silencedetect prints: a silence_start, then its silence_end, then
\* the next silence_start, ..., at increasing media times; a run that
\* fails, or a file that ends in silence, stops after a silence_start.
SilOutput(m) ==
  \A i \in 1..Len(m) :
    /\ m[i].kind = (IF i % 2 = 1 THEN "start" ELSE "end")
    /\ i > 1 => m[i - 1].t < m[i].t

SilRuns ==
  IF fs.upload = "exists"
  THEN {[lines |-> l, outcome |-> o] :
          l \in {m \in SeqsUpTo(SilLines, MaxMarkers) : SilOutput(m)},
          o \in {"end", "error"}}
  ELSE {[lines |-> <<>>, outcome |-> "error"]}

\* The silence detection is not awaited here: the handler goes on.
SilenceDetectDeferred ==
  /\ pc = "silence"
  /\ pc' = "screenshots"
  /\ UNCHANGED <<env, fs, loc, hist, res>>

\* const silences = await new Promise(... silencedetect ...)
SilenceDetect ==
  /\ pc = "silence"
  /\ \E run \in SilRuns :
       IF ToolSettle(run.outcome) = "reject"
       THEN Catch("silence") /\ UNCHANGED loc
       ELSE /\ loc' = [loc EXCEPT !.silences = ParseSilLines(<<>>, run.lines)]
            /\ hist' = Tool(hist, "silence", run.outcome)
            /\ pc' = "screenshots"
            /\ UNCHANGED res
  /\ UNCHANGED <<env, fs>>

\* ffmpeg(inputPath).screenshots({ timestamps: [0.0, 0.5, 1.0], ... })
Screenshots ==
  /\ pc = "screenshots"
  /\ \E outcome \in {"end", "error"} :
       IF ToolSettle(outcome) = "reject"
       THEN Catch("screenshots") /\ UNCHANGED fs
       ELSE /\ fs' = [fs EXCEPT !.frames = (outcome = "end")]
            /\ hist' = Tool(hist, "screenshots", outcome)
            /\ pc' = "ocr"
            /\ UNCHANGED res
  /\ UNCHANGED <<env, loc>>

\* The text of the three frames, OCR'd, trimmed non-empty.
FrameText == <<"f0", "f1", "f2">>
OcrOutcomes == {"throw", "blank", "text"}

\* The loop without its break: the last frame with a text wins.
RECURSIVE OcrLoopLast(_, _)
OcrLoopLast(outs, i) ==
  IF i > Len(outs) THEN [hookText |-> "", calls |-> Len(outs)]
  ELSE IF outs[i] = "throw" THEN [hookText |-> "", calls |-> i]
  ELSE LET rest == OcrLoopLast(outs, i + 1)
       IN  IF outs[i] = "text" /\ rest.hookText = ""
           THEN [hookText |-> FrameText[i], calls |-> rest.calls]
           ELSE rest

\* for (const f of frames) { recognize; if (text) { hookText = ...; break } }
\* inside try { } catch {}: the loop from frame i on, outs[i] being what
\* Tesseract.recognize does on frame i.
RECURSIVE OcrLoop(_, _)
OcrLoop(outs, i) ==
  IF i > Len(outs) THEN [hookText |-> "", calls |-> Len(outs)]
  ELSE IF outs[i] = "throw" THEN [hookText |-> "", calls |-> i]
  ELSE IF outs[i] = "text" THEN [hookText |-> FrameText[i], calls |-> i]
  ELSE OcrLoop(outs, i + 1)

\* A frame file that was not written cannot be recognized.
OcrRuns ==
  IF fs.frames THEN [1..3 -> OcrOutcomes] ELSE {[i \in 1..3 |-> "throw"]}

Ocr ==
  /\ pc = "ocr"
  /\ \E outs \in OcrRuns :
       LET r == OcrLoop(outs, 1)
       IN  /\ loc' = [loc EXCEPT !.hookText = r.hookText,
                                 !.captionsPresent = (r.hookText # "")]
           /\ hist' = [Ran("ocr") EXCEPT !.calls.ocr = r.calls]
  /\ pc' = "rm"
  /\ UNCHANGED <<env, fs, res>>

\* await rm(workDir, { recursive: true, force: true })
RmWorkDir ==
  /\ pc = "rm"
  /\ \E ok \in BOOLEAN :
       IF ok
       THEN /\ fs' = [fs EXCEPT !.workDir = "removed", !.frames = FALSE]
            /\ hist' = Ran("rm")
            /\ pc' = "unlink"
            /\ UNCHANGED res
       ELSE /\ Catch("rm")
            /\ UNCHANGED fs
  /\ UNCHANGED <<env, loc>>

\* if (file && file.path) { try { await unlink(file.path) } catch {} }
Unlink ==
  /\ pc = "unlink"
  /\ \E ok \in BOOLEAN :
       fs' = [fs EXCEPT !.upload = IF ok THEN "removed" ELSE @]
  /\ hist' = Ran("unlink")
  /\ pc' = "cuts"
  /\ UNCHANGED <<env, loc, res>>

\* let cuts = cutTimestamps.length; the silence-derived fallback
CountCuts ==
  /\ pc = "cuts"
  /\ LET n == Len(loc.cutTimestamps)
         fb == SilenceFallbackGuard(n, loc.silences)
         c == IF fb THEN SilenceCuts(loc.silences) ELSE n
     IN  /\ loc' = [loc EXCEPT !.cuts = c]
         /\ hist' = [hist EXCEPT
                       !.ran = @ \cup (IF fb THEN {"cuts", "silenceFallback"}
                                       ELSE {"cuts"}),
                       !.silenceCount = c]
         /\ pc' = IF FrameFallbackGuard(c) THEN "frameSample" ELSE "avgCut"
  /\ UNCHANGED <<env, fs, res>>

\* Byte sizes of the sampled frames.
SampleSizes == {0, 85, 100, 200}
MaxSamples == 3

Abs(x) == IF x < 0 THEN 0 - x ELSE x

\* if (a === 0 || b === 0) continue; diff = |b - a| / max(a, b);
\* if (diff >= 0.15) inferredCuts++
SizeJump(a, b) ==
  /\ a # 0 /\ b # 0
  /\ 100 * Abs(b - a) >= 15 * Max(a, b)

InferredCuts(stats) ==
  Cardinality({i \in 2..Len(stats) : SizeJump(stats[i - 1], stats[i])})

\* video: the byte sizes of the frames of the uploaded video at 4 fps.
\* ffmpeg writes them into workDir only if the input and workDir exist.
SampleRuns ==
  IF fs.upload = "exists" /\ fs.workDir = "exists"
  THEN {[video |-> z, sizes |-> z, outcome |-> o] :
          z \in SeqsUpTo(SampleSizes, MaxSamples), o \in {"end", "error"}}
  ELSE {[video |-> z, sizes |-> <<>>, outcome |-> "error"] :
          z \in SeqsUpTo(SampleSizes, MaxSamples)}

\* ffmpeg(inputPath)...save(path.join(workDir, 'cut-sample-%03d.jpg'))
FrameSample ==
  /\ pc = "frameSample"
  /\ \E run \in SampleRuns :
       IF ToolSettle(run.outcome) = "reject"
       THEN Catch("frameSample") /\ UNCHANGED fs
       ELSE /\ fs' = [fs EXCEPT !.samples = run.sizes]
            /\ hist' = [Tool(hist, "frameSample", run.outcome)
                          EXCEPT !.frameJumps = InferredCuts(run.video)]
            /\ pc' = "frameDiff"
            /\ UNCHANGED res
  /\ UNCHANGED <<env, loc>>

\* try { readdir(workDir) ... if (inferredCuts > 0) { cuts = inferredCuts;
\* cutTimestamps = [] } } catch {}: readdir throws when workDir is gone.
FrameDiff ==
  /\ pc = "frameDiff"
  /\ LET n == InferredCuts(fs.samples)
     IN  loc' = IF fs.workDir = "exists" /\ n > 0
                THEN [loc EXCEPT !.cuts = n, !.cutTimestamps = <<>>]
                ELSE loc
  /\ hist' = Ran("frameDiff")
  /\ pc' = "avgCut"
  /\ UNCHANGED <<env, fs, res>>

\* Math.round(x) of the quotient n / d, d > 0
RoundDiv(n, d) == (2 * n + d) \div (2 * d)

\* Math.floor in the place of Math.round.
AvgCutSecFloor(dur, cuts) ==
  IF dur.nan THEN NaN
  ELSE IF cuts > 1 THEN Num((10 * dur.v) \div cuts)
  ELSE Num(10 * dur.v)

\* cuts > 1 ? Math.round((durationSec / cuts) * 10) / 10 : durationSec,
\* in tenths of a second
AvgCutSec(dur, cuts) ==
  IF dur.nan THEN NaN
  ELSE IF cuts > 1 THEN Num(RoundDiv(10 * dur.v, cuts))
  ELSE Num(10 * dur.v)

AvgCut ==
  /\ pc = "avgCut"
  /\ loc' = [loc EXCEPT !.avgCutSec = AvgCutSec(loc.durationSec, loc.cuts)]
  /\ hist' = Ran("avgCut")
  /\ pc' = IF env.openai THEN "audio" ELSE "derive"
  /\ UNCHANGED <<env, fs, res>>

\* ffmpeg(inputPath)...save(audioPath), audioPath = `${workDir}/audio.wav`
ExtractAudio ==
  /\ pc = "audio"
  /\ \E outcome \in IF fs.upload = "exists" /\ fs.workDir = "exists"
                    THEN {"end", "error"} ELSE {"error"} :
       IF ToolSettle(outcome) = "reject"
       THEN Catch("audio") /\ UNCHANGED fs
       ELSE /\ fs' = [fs EXCEPT !.audio = (outcome = "end")]
            /\ hist' = Tool(hist, "audio", outcome)
            /\ pc' = "transcribe"
            /\ UNCHANGED res
  /\ UNCHANGED <<env, loc>>

\* A text is a sequence of tokens: "w" is a word, " " is white space.
TrTexts == {<<>>, <<" ">>, <<"w">>, <<"w", " ", "w">>}
SegTimes == {0, 4, 12}
SegTexts == {<<>>, <<"w">>}
MaxSegs == 2
TrSegments == [start : SegTimes, end : SegTimes, text : SegTexts]

\* What openai.audio.transcriptions.create answers: text and segments may
\* be missing from the answer.
TrAnswers == [text : {None} \cup {Some(t) : t \in TrTexts},
              segments : {None} \cup
                         {Some(g) : g \in SeqsUpTo(TrSegments, MaxSegs)}]

\* The call reads audioPath (fs.createReadStream): without the file it
\* throws; with it the service answers or throws.
TrOutcomes ==
  IF fs.audio
  THEN {[threw |-> TRUE, answer |-> [text |-> None, segments |-> None]]}
       \cup {[threw |-> FALSE, answer |-> a] : a \in TrAnswers}
  ELSE {[threw |-> TRUE, answer |-> [text |-> None, segments |-> None]]}

\* The transcription block without its try/catch.
TranscribeRethrow(threw) == "rethrow"

\* try { if (openai) { ... } } catch {}
TranscribeCatch(threw) == "swallow"

\* transcript = tr?.text || undefined
TranscriptOf(answer) ==
  IF answer.text = None \/ answer.text = Some(<<>>) THEN None ELSE answer.text

Transcribe ==
  /\ pc = "transcribe"
  /\ \E o \in TrOutcomes :
       IF o.threw /\ TranscribeCatch(o.threw) = "rethrow"
       THEN /\ pc' = "done"
            /\ Send(500, Some([error |-> "analysis_failed"]))
            /\ hist' = [Ran("transcribe") EXCEPT
                          !.calls.transcribe = @ + 1,
                          !.trThrew = o.threw, !.thrown = "transcribe"]
            /\ UNCHANGED loc
       ELSE /\ loc' = IF o.threw THEN loc
                      ELSE [loc EXCEPT !.transcript = TranscriptOf(o.answer),
                                       !.segments = o.answer.segments]
            /\ hist' = [Ran("transcribe") EXCEPT
                          !.calls.transcribe = @ + 1,
                          !.trThrew = o.threw]
            /\ pc' = "derive"
            /\ UNCHANGED res
  /\ UNCHANGED <<env, fs>>

RECURSIVE Flatten(_)
Flatten(ss) == IF ss = <<>> THEN <<>> ELSE Head(ss) \o Flatten(Tail(ss))

TwoSecTicks == 8
ThreeSecTicks == 12

\* segments.filter(s => s.start < 2).map(s => s.text).join(' ').trim():
\* the words of the segments that start before 2 s
First2sText(segs) ==
  Flatten([i \in 1..Len(segs) |->
             IF segs[i].start < TwoSecTicks THEN segs[i].text ELSE <<>>])

\* segments.reduce((acc, s) => acc + Math.max(0, s.end - s.start), 0), ticks
SpeechSeconds(segs) ==
  SeqSum([i \in 1..Len(segs) |-> Max(0, segs[i].end - segs[i].start)])

\* (transcript || '').trim().split(/\s+/).filter(Boolean).length
WordsTotal(transcript) ==
  IF transcript = None THEN 0
  ELSE Cardinality({i \in 1..Len(transcript[1]) : transcript[1][i] = "w"})

\* The quotient without the speechSeconds > 0 test: 0 for no speech.
WordsPerSecZero(words, speechTicks) ==
  Some(IF speechTicks > 0 THEN (2 * 400 * words + speechTicks)
                                 \div (2 * speechTicks)
       ELSE 0)

\* speechSeconds > 0 ? Number((wordsTotal / speechSeconds).toFixed(2))
\*                   : undefined, in hundredths of a word per second
WordsPerSec(words, speechTicks) ==
  IF speechTicks > 0 THEN Some(RoundDiv(400 * words, speechTicks)) ELSE None

\* The count without the filter.
First3CutsAll(times) == Len(times)

\* cutTimestamps.filter(t => t <= 3).length
First3Cuts(times) ==
  Cardinality({i \in 1..Len(times) : times[i] <= ThreeSecTicks})

\* silences.reduce(acc + Math.max(0, s.end - s.start)) / Math.max(1, dur):
\* the quotient num / den of two numbers of ticks; Math.max(1, NaN) is NaN
SilenceRatio(sil, dur) ==
  [nan |-> dur.nan,
   num |-> SeqSum([i \in 1..Len(sil) |-> Max(0, sil[i].end - sil[i].start)]),
   den |-> IF dur.nan THEN 4 ELSE 4 * Max(1, dur.v)]

Derive ==
  /\ pc = "derive"
  /\ LET hasSegs == loc.segments # None /\ Len(loc.segments[1]) > 0
         speech == IF hasSegs THEN SpeechSeconds(loc.segments[1]) ELSE 0
     IN  loc' = [loc EXCEPT
           !.first2sText = IF hasSegs THEN First2sText(loc.segments[1])
                           ELSE <<>>,
           !.wordsPerSec = WordsPerSec(WordsTotal(loc.transcript), speech),
           !.first3Cuts = First3Cuts(loc.cutTimestamps),
           !.silenceRatio = SilenceRatio(loc.silences, loc.durationSec)]
  /\ hist' = Ran("derive")
  /\ pc' = "volume"
  /\ UNCHANGED <<env, fs, res>>

\* What the volumedetect run prints: mean_volume and max_volume, each
\* possibly missing; nothing when the input file is gone.
VolRuns ==
  IF fs.upload = "exists"
  THEN {[mean |-> Some(0 - 20), max |-> None, outcome |-> "error"],
        [mean |-> Some(0 - 20), max |-> Some(0 - 3), outcome |-> "end"]}
  ELSE {[mean |-> None, max |-> None, outcome |-> "error"]}

VolumeDetect ==
  /\ pc = "volume"
  /\ \E run \in VolRuns :
       IF ToolSettle(run.outcome) = "reject"
       THEN Catch("volume") /\ UNCHANGED loc
       ELSE /\ loc' = [loc EXCEPT !.meanDb = run.mean, !.maxDb = run.max]
            /\ hist' = Tool(hist, "volume", run.outcome)
            /\ pc' = "signalstats"
            /\ UNCHANGED res
  /\ UNCHANGED <<env, fs>>

\* What the signalstats run prints: YAVG values, the last YMIN and YMAX.
StatRuns ==
  IF fs.upload = "exists"
  THEN {[values |-> <<10, 21>>, ymin |-> Some(16), ymax |-> None,
         outcome |-> "error"],
        [values |-> <<10, 21>>, ymin |-> Some(16), ymax |-> Some(235),
         outcome |-> "end"]}
  ELSE {[values |-> <<>>, ymin |-> None, ymax |-> None, outcome |-> "error"]}

\* .on('end', ...): yavg = Math.round(mean of values), contrast = ymax - ymin;
\* .on('error', () => resolve(null)) leaves both unset.
FirstSecondStats(run) ==
  [ymin |-> run.ymin, ymax |-> run.ymax,
   yavg |-> IF run.outcome = "end" /\ Len(run.values) > 0
            THEN Some(RoundDiv(SeqSum(run.values), Len(run.values)))
            ELSE None,
   contrast |-> IF run.outcome = "end" /\ run.ymin # None /\ run.ymax # None
                THEN Some(run.ymax[1] - run.ymin[1])
                ELSE None]

SignalStats ==
  /\ pc = "signalstats"
  /\ \E run \in StatRuns :
       IF ToolSettle(run.outcome) = "reject"
       THEN Catch("signalstats") /\ UNCHANGED loc
       ELSE /\ loc' = [loc EXCEPT !.firstSecondStats = FirstSecondStats(run)]
            /\ hist' = Tool(hist, "signalstats", run.outcome)
            /\ pc' = "llmCheck"
            /\ UNCHANGED res
  /\ UNCHANGED <<env, fs>>

\* if (!openai) return res.status(503).json({ error: "llm_unavailable" })
LlmCheck ==
  /\ pc = "llmCheck"
  /\ IF ~env.openai
     THEN /\ pc' = "done"
          /\ Send(503, Some([error |-> "llm_unavailable"]))
     ELSE /\ pc' = "suggest"
          /\ UNCHANGED res
  /\ hist' = Ran("llmCheck")
  /\ UNCHANGED <<env, fs, loc>>

\* A JSON value by its typeof and its printed form.
Str(x) == [t |-> "string", s |-> x]
Seven == [t |-> "number", s |-> "7"]
Undefined == [t |-> "undefined", s |-> ""]

\* Boolean(v): the empty string, 0 and undefined are falsy
Truthy(v) ==
  CASE v.t = "string" -> v.s # ""
    [] v.t = "number" -> v.s # "0"
    [] OTHER -> FALSE

\* One item of the suggestions array of the answer: a string (tip holds
\* the string itself), or an object whose tip is a string, a number or
\* missing.
SugItems ==
  {[type |-> "string", tip |-> Str(x)] : x \in {"", "trim the intro"}}
  \cup {[type |-> "object", tip |-> v] :
          v \in {Undefined, Str("trim the intro"), Seven}}

\* What the suggestions completion gives: a throw, a content that is not
\* JSON, a JSON value with or without a suggestions array, or nothing at
\* all (the service never answers and the call is given no signal and no
\* timeout, so the await never settles).
SugAnswers ==
  {[kind |-> "throw", items |-> <<>>], [kind |-> "unparsable", items |-> <<>>],
   [kind |-> "noArray", items |-> <<>>], [kind |-> "hang", items |-> <<>>]}
  \cup {[kind |-> "array", items |-> a] : a \in SeqsUpTo(SugItems, MaxItems)}

RECURSIVE NonEmpty(_)
NonEmpty(ss) ==
  IF ss = <<>> THEN <<>>
  ELSE IF Head(ss) = "" THEN NonEmpty(Tail(ss))
  ELSE <<Head(ss)>> \o NonEmpty(Tail(ss))

\* s => typeof s === 'string' ? s : (s?.tip || '')
TipOf(item) ==
  IF item.type = "string" THEN item.tip
  ELSE IF Truthy(item.tip) THEN item.tip ELSE Str("")

\* .filter(Boolean)
RECURSIVE FilterBoolean(_)
FilterBoolean(vs) ==
  IF vs = <<>> THEN <<>>
  ELSE IF Truthy(Head(vs)) THEN <<Head(vs)>> \o FilterBoolean(Tail(vs))
  ELSE FilterBoolean(Tail(vs))

MaxSuggestions == 5
Take(ss, n) == SubSeq(ss, 1, IF Len(ss) < n THEN Len(ss) ELSE n)

\* try { parsed = JSON.parse(raw) } catch {}; if (Array.isArray(
\* parsed?.suggestions)) suggestions = parsed.suggestions.slice(0,5)
\*   .map(s => typeof s === 'string' ? s : (s?.tip || '')).filter(Boolean)
SuggestionsOf(answer) ==
  IF answer.kind = "array"
  THEN LET cut == Take(answer.items, MaxSuggestions)
       IN  FilterBoolean([i \in 1..Len(cut) |-> TipOf(cut[i])])
  ELSE <<>>

\* the suggestions call: catch (e) { return res.status(502).json(...) }
Suggest ==
  /\ pc = "suggest"
  /\ \E a \in SugAnswers :
       /\ hist' = [Ran("suggest") EXCEPT !.calls.suggest = @ + 1,
                                         !.sugKind = a.kind]
       /\ IF a.kind = "throw"
          THEN /\ pc' = "done"
               /\ Send(502, Some([error |-> "llm_failed"]))
               /\ UNCHANGED loc
          ELSE IF a.kind = "hang"
          THEN /\ pc' = "awaitSuggest"
               /\ UNCHANGED <<loc, res>>
          ELSE /\ loc' = [loc EXCEPT !.suggestions = SuggestionsOf(a)]
               /\ pc' = "critique"
               /\ UNCHANGED res
  /\ UNCHANGED <<env, fs>>

\* What the critique completion gives: a throw, no content, or lines.
MaxCritLines == 1
CritAnswers ==
  {[kind |-> "throw", lines |-> <<>>], [kind |-> "null", lines |-> <<>>]}
  \cup {[kind |-> "text", lines |-> l] :
          l \in SeqsUpTo({"", "add captions"}, MaxCritLines)}

\* content?.split(/\n|\r/).map(s => s.trim()).filter(Boolean).slice(0,5)
CritiqueOf(answer) ==
  IF answer.kind = "text" THEN Some(Take(NonEmpty(answer.lines), 5))
  ELSE None

\* The object handed to res.json, nested keys written with a dot.
Report(l) ==
  ("durationSec" :> Some(l.durationSec)) @@ ("cuts" :> Some(l.cuts))
  @@ ("avgCutSec" :> Some(l.avgCutSec))
  @@ ("cutTimeline" :> Some(l.cutTimestamps))
  @@ ("first3Cuts" :> Some(l.first3Cuts)) @@ ("hookText" :> Some(l.hookText))
  @@ ("first2sText" :> Some(l.first2sText))
  @@ ("captionsPresent" :> Some(l.captionsPresent))
  @@ ("silences" :> Some(l.silences))
  @@ ("silenceRatio" :> Some(l.silenceRatio))
  @@ ("loudness" :> Some("object")) @@ ("loudness.meanDb" :> l.meanDb)
  @@ ("loudness.maxDb" :> l.maxDb) @@ ("firstSecond" :> Some("object"))
  @@ ("firstSecond.yavg" :> l.firstSecondStats.yavg)
  @@ ("firstSecond.ymin" :> l.firstSecondStats.ymin)
  @@ ("firstSecond.ymax" :> l.firstSecondStats.ymax)
  @@ ("firstSecond.contrast" :> l.firstSecondStats.contrast)
  @@ ("wordsPerSec" :> l.wordsPerSec) @@ ("transcript" :> l.transcript)
  @@ ("suggestions" :> Some(l.suggestions)) @@ ("critique" :> l.critique)

\* res.json serialises with JSON.stringify: a key whose value is undefined
\* is left out (a NaN number is written as null, its key stays).
Serialize(obj) == [k \in {j \in DOMAIN obj : obj[j] # None} |-> obj[k]]

\* The critique block without its try/catch.
CritiqueRethrow(threw) == "rethrow"

\* try { ... critique = ... } catch {}
CritiqueCatch(threw) == "swallow"

\* The critique block is left out: the report follows the suggestions.
CritiqueSkipped ==
  /\ pc = "critique"
  /\ Send(200, Some(Serialize(Report(loc))))
  /\ hist' = Ran("critique")
  /\ pc' = "done"
  /\ UNCHANGED <<env, fs, loc>>

\* the critique call, inside try { } catch {}, and then
\* res.json({ durationSec, cuts, ..., suggestions, critique })
Critique ==
  /\ pc = "critique"
  /\ \E a \in CritAnswers :
       LET l == [loc EXCEPT !.critique = CritiqueOf(a)]
           threw == a.kind = "throw"
       IN  /\ hist' = [Ran("critique") EXCEPT !.calls.critique = @ + 1,
                                              !.critThrew = threw]
           /\ IF threw /\ CritiqueCatch(threw) = "rethrow"
              THEN /\ Send(500, Some([error |-> "analysis_failed"]))
                   /\ UNCHANGED loc
              ELSE /\ loc' = l
                   /\ Send(200, Some(Serialize(Report(l))))
  /\ pc' = "done"
  /\ UNCHANGED <<env, fs>>

Next ==
  \/ Request \/ Mkdtemp \/ Probe \/ StrictPass \/ LoosePass \/ SilenceDetect
  \/ Screenshots \/ Ocr \/ RmWorkDir \/ Unlink \/ CountCuts \/ FrameSample
  \/ FrameDiff \/ AvgCut \/ ExtractAudio \/ Transcribe \/ Derive
  \/ VolumeDetect \/ SignalStats \/ LlmCheck \/ Suggest \/ Critique

Spec == Init /\ [][Next]_vars

\* Every step of the handler that can be taken is eventually taken: the
\* event loop runs each settled continuation.
FairSpec == Spec /\ WF_vars(Next)

\* ------------------------------------------------------------ the claims
Responded == pc = "done"
Body == res.body[1]

\* C1: for every run that created a working directory, on every exit path
\* the working directory and the uploaded file have both been removed by
\* the time the response is sent.
C1_CleanupOnEveryExit ==
  (res.sent > 0 /\ fs.workDir # "none")
    => (fs.workDir = "removed" /\ fs.upload = "removed")

\* C2: if the media probe fails the pipeline does not abort: durationSec is
\* taken as 0, the later stages run and the request reaches the suggestion
\* stage instead of answering with an error.
C2_ProbeFailureDoesNotAbort ==
  hist.probeErr =>
    /\ hist.thrown # "probe"
    /\ loc.durationSec = Num(0)
    /\ Responded => "llmCheck" \in hist.ran

\* C3 as stated: the loose pass runs iff the strict pass returned zero
\* timestamps, the silence-derived fallback runs iff both visual passes
\* returned zero, the frame-diff fallback runs iff the count is still zero
\* after the silence-derived fallback.
C3_FallbackOrderAsStated ==
  /\ "silence" \in hist.ran =>
       ("loose" \in hist.ran <=> hist.strictCount = 0)
  /\ "avgCut" \in hist.ran =>
       /\ "silenceFallback" \in hist.ran <=> hist.visualCount = 0
       /\ "frameSample" \in hist.ran <=> hist.silenceCount = 0

\* C3 amended: the loose pass runs iff the strict pass returned zero
\* timestamps; the silence-derived fallback runs iff both visual passes
\* returned zero and more than one silence interval was detected; the
\* frame-diff fallback runs iff the count is zero after the silence stage;
\* no fallback runs when the count before it is non-zero.
C3_FallbackOrder ==
  /\ "loose" \in hist.ran => hist.strictCount = 0
  /\ "silenceFallback" \in hist.ran => hist.visualCount = 0
  /\ "frameSample" \in hist.ran => hist.silenceCount = 0
  /\ "silence" \in hist.ran =>
       ("loose" \in hist.ran <=> hist.strictCount = 0)
  /\ "avgCut" \in hist.ran =>
       /\ "silenceFallback" \in hist.ran
            <=> (hist.visualCount = 0 /\ Len(loc.silences) > 1)
       /\ "frameSample" \in hist.ran <=> hist.silenceCount = 0

\* A run in which both visual passes found nothing, the silence-derived
\* fallback ran and found cuts, so that the frame-diff fallback did not run.
C3_Witness ==
  /\ "avgCut" \in hist.ran
  /\ {"loose", "silenceFallback"} \subseteq hist.ran
  /\ hist.silenceCount > 0
  /\ "frameSample" \notin hist.ran

\* C4 as stated: a run that returns a report sends exactly one chat
\* completion request.
C4_OneChatCompletion ==
  res.status = 200 => hist.calls.suggest + hist.calls.critique = 1

\* C4 amended: a run that returns a report sends exactly one suggestions
\* request and exactly one critique request, two chat completions in all.
C4_OneSuggestOneCritique ==
  res.status = 200 => (hist.calls.suggest = 1 /\ hist.calls.critique = 1)

C4_Witness == res.status = 200 /\ hist.calls.suggest = 1

\* C5: whenever a file is uploaded and the suggestion service is not
\* configured, the request fails with 503 llm_unavailable, no report is
\* returned and the working directory has been removed, whatever the other
\* stages did (a failing probe included).
C5_UnconfiguredGives503 ==
  (env.file /\ ~env.openai /\ Responded /\ fs.workDir # "none")
    => (res.status = 503 /\ Body = [error |-> "llm_unavailable"]
        /\ fs.workDir = "removed")

\* C6: if the suggestion call errors or its output cannot be parsed, the
\* request answers 502 llm_failed; a 200 report is never returned after an
\* unparsable suggestion response.
C6_UnparsableIsFatal ==
  (hist.sugKind \in {"throw", "unparsable"})
    => (res.status # 200 /\ (Responded => res.status = 502))

\* C7: a request without an uploaded file is answered with 400 missing_file
\* and nothing is processed: no working directory, no tool, OCR,
\* transcription or suggestion call.
C7_MissingFile ==
  ~env.file =>
    /\ Responded => (res.status = 400 /\ Body = [error |-> "missing_file"])
    /\ fs.workDir = "none"
    /\ hist.calls = NoCalls
    /\ hist.ran = {}

C7_Witness == ~env.file /\ Responded /\ res.status = 400

ReportKeys ==
  {"durationSec", "cuts", "avgCutSec", "cutTimeline", "first3Cuts",
   "hookText", "first2sText", "captionsPresent", "silences", "silenceRatio",
   "loudness.meanDb", "loudness.maxDb", "firstSecond.yavg",
   "firstSecond.ymin", "firstSecond.ymax", "firstSecond.contrast",
   "wordsPerSec", "transcript", "suggestions", "critique"}

\* C8: every 200 report contains all the keys of the report, an absent
\* measurement being null or empty and never an omitted key.
C8_FullReportShape ==
  res.status = 200 => ReportKeys \subseteq DOMAIN Body

\* C9: if the speech-to-text call throws, transcript and wordsPerSec are
\* absent, the derived fields are those of a run without transcription,
\* nothing is thrown out of the stage, and the request answers with a 200
\* report when the suggestions call does not fail.
C9_TranscriptionFailureSwallowed ==
  hist.trThrew =>
    /\ hist.thrown # "transcribe"
    /\ loc.transcript = None /\ loc.segments = None
    /\ loc.wordsPerSec = None /\ loc.first2sText = <<>>
    /\ (Responded /\ hist.sugKind \notin {"none", "throw"}) =>
         /\ res.status = 200
         /\ "transcript" \notin DOMAIN Body
         /\ "wordsPerSec" \notin DOMAIN Body
         /\ Body["first2sText"] = Some(<<>>)
         /\ Body["cuts"] = Some(loc.cuts)
         /\ Body["silences"] = Some(loc.silences)

C9_Witness == hist.trThrew /\ res.status = 200

\* C10: the failure of an ffmpeg invocation is never thrown out of its
\* stage: the only throws are those of mkdtemp, the probe and rm, and after
\* a failed invocation the handler stands at the next stage or fallback.
NextStages(stage) ==
  CASE stage = "strict" -> {"loose", "silence"}
    [] stage = "loose" -> {"silence"}
    [] stage = "silence" -> {"screenshots"}
    [] stage = "screenshots" -> {"ocr"}
    [] stage = "frameSample" -> {"frameDiff"}
    [] stage = "audio" -> {"transcribe"}
    [] stage = "volume" -> {"signalstats"}
    [] stage = "signalstats" -> {"llmCheck"}
    [] OTHER -> {}

C10_ToolFailureProceeds ==
  (hist'.calls.tool = hist.calls.tool + 1 /\ hist'.lastTool.outcome = "error")
    => (res' = res /\ pc' \in NextStages(hist'.lastTool.stage))

C10_ToolFailureNotPropagated ==
  /\ [](hist.thrown \notin ToolStages)
  /\ [](res.status = 500 => hist.thrown \in {"mkdtemp", "probe", "rm"})
  /\ [][C10_ToolFailureProceeds]_vars

\* A report returned although the last ffmpeg invocations had failed.
C10_Witness ==
  /\ res.status = 200
  /\ hist.lastTool = [stage |-> "signalstats", outcome |-> "error"]
  /\ {"frameSample", "audio", "volume"} \subseteq hist.ran

\* ------------------------------------------- the computations, one by one
\* A second specification applies one computation of the handler to an
\* input drawn from a bounded set: loc holds the computation's name (fn),
\* its input (arg) and, once applied, its result (out).
MaxDur == 24        \* durationSec of the inputs of avgCutSec
MaxCuts == 10       \* cuts of the inputs of avgCutSec

Applied(fn) == pc = "applied" /\ loc.fn = fn

AvgCutInputs ==
  {[fn |-> "avgCutSec", arg |-> [dur |-> d, cuts |-> c], out |-> None] :
     d \in {Num(n) : n \in 0..MaxDur} \cup {NaN}, c \in 0..MaxCuts}

ApplyAvgCutSec ==
  /\ pc = "apply" /\ loc.fn = "avgCutSec"
  /\ loc' = [loc EXCEPT !.out = Some(AvgCutSec(loc.arg.dur, loc.arg.cuts))]
  /\ pc' = "applied"
  /\ UNCHANGED <<env, fs, hist, res>>

OcrInputs ==
  {[fn |-> "ocr", arg |-> outs, out |-> None] : outs \in [1..3 -> OcrOutcomes]}

ApplyOcrLoop ==
  /\ pc = "apply" /\ loc.fn = "ocr"
  /\ loc' = [loc EXCEPT !.out = Some(OcrLoop(loc.arg, 1))]
  /\ pc' = "applied"
  /\ UNCHANGED <<env, fs, hist, res>>

\* transcript and segments as the transcription block leaves them
WordsInputs ==
  {[fn |-> "wordsPerSec", arg |-> [transcript |-> t, segments |-> g],
    out |-> None] :
     t \in {None} \cup {Some(x) : x \in TrTexts \ {<<>>}},
     g \in {None} \cup {Some(x) : x \in SeqsUpTo(TrSegments, MaxSegs)}}

\* if (segments && segments.length) speechSeconds = ...
SpeechOf(segments) ==
  IF segments # None /\ Len(segments[1]) > 0
  THEN SpeechSeconds(segments[1]) ELSE 0

ApplyWordsPerSec ==
  /\ pc = "apply" /\ loc.fn = "wordsPerSec"
  /\ loc' = [loc EXCEPT !.out =
               Some(WordsPerSec(WordsTotal(loc.arg.transcript),
                                SpeechOf(loc.arg.segments)))]
  /\ pc' = "applied"
  /\ UNCHANGED <<env, fs, hist, res>>

\* The stderr lines of the strict and of the loose scene-detection run.
MaxPureLines == 2
CutInputs ==
  {[fn |-> "cutTimeline", arg |-> [strict |-> a, loose |-> b], out |-> None] :
     a \in SeqsUpTo(CutLines, MaxPureLines),
     b \in SeqsUpTo(CutLines, MaxPureLines)}

\* let cutTimestamps = await detectCuts(0.32);
\* if (cutTimestamps.length === 0) { loose = await detectCuts(0.15);
\*   cutTimestamps = Array.from(new Set([...])).sort(...) }
CutTimeline(strictLines, looseLines) ==
  LET strict == ParseCutLines(<<>>, strictLines)
  IN  IF NeedsLoose(strict)
      THEN UnionSorted(strict, ParseCutLines(<<>>, looseLines))
      ELSE strict

ApplyCutTimeline ==
  /\ pc = "apply" /\ loc.fn = "cutTimeline"
  /\ loc' = [loc EXCEPT !.out =
               Some(CutTimeline(loc.arg.strict, loc.arg.loose))]
  /\ pc' = "applied"
  /\ UNCHANGED <<env, fs, hist, res>>

\* Any sequence of silence_start / silence_end lines, at any times.
MarkerInputs ==
  {[fn |-> "silences", arg |-> m, out |-> None] :
     m \in SeqsUpTo(SilLines, MaxMarkers)}

ApplyParseSilLines ==
  /\ pc = "apply" /\ loc.fn = "silences"
  /\ loc' = [loc EXCEPT !.out = Some(ParseSilLines(<<>>, loc.arg))]
  /\ pc' = "applied"
  /\ UNCHANGED <<env, fs, hist, res>>

\* A recognized text as its runs of characters: ch is " " for a run of
\* whitespace and "a" for a run of other characters, n the run's length.
MaxTextRuns == 2
RunLens == {1, 81}
Texts ==
  {t \in SeqsUpTo([ch : {" ", "a"}, n : RunLens], MaxTextRuns) :
     \A i \in 2..Len(t) : t[i - 1].ch # t[i].ch}

RECURSIVE TrimStart(_)
TrimStart(t) ==
  IF t # <<>> /\ Head(t).ch = " " THEN TrimStart(Tail(t)) ELSE t
RECURSIVE TrimEnd(_)
TrimEnd(t) ==
  IF t # <<>> /\ t[Len(t)].ch = " " THEN TrimEnd(SubSeq(t, 1, Len(t) - 1))
  ELSE t
\* .trim()
Trim(t) == TrimEnd(TrimStart(t))

\* .replace(/\s+/g, ' ')
CollapseWs(t) ==
  [i \in 1..Len(t) |-> IF t[i].ch = " " THEN [ch |-> " ", n |-> 1] ELSE t[i]]

TextLen(t) == SeqSum([i \in 1..Len(t) |-> t[i].n])

\* No truncation.
SliceTextAll(t, k) == t

\* .slice(0, k)
RECURSIVE SliceText(_, _)
SliceText(t, k) ==
  IF t = <<>> \/ k = 0 THEN <<>>
  ELSE IF Head(t).n <= k THEN <<Head(t)>> \o SliceText(Tail(t), k - Head(t).n)
  ELSE <<[ch |-> Head(t).ch, n |-> k]>>

HookMax == 80

\* What Tesseract.recognize gives for a frame: a throw or a text.
HookInputs ==
  {[fn |-> "hook", arg |-> f, out |-> None] :
     f \in [1..3 -> {[threw |-> TRUE, text |-> <<>>]}
                      \cup {[threw |-> FALSE, text |-> t] : t \in Texts}]}

\* The outcome of one frame as the loop sees it.
OcrOutcomeOf(r) ==
  IF r.threw THEN "throw" ELSE IF Trim(r.text) = <<>> THEN "blank" ELSE "text"

\* hookText = text.replace(/\s+/g, ' ').slice(0, 80) of the frame at which
\* the loop breaks; captionsPresent = !!hookText
HookOf(frames) ==
  LET r == OcrLoop([i \in 1..3 |-> OcrOutcomeOf(frames[i])], 1)
      h == IF r.hookText = "" THEN <<>>
           ELSE SliceText(CollapseWs(Trim(frames[r.calls].text)), HookMax)
  IN  [hookText |-> h, captionsPresent |-> h # <<>>]

ApplyHook ==
  /\ pc = "apply" /\ loc.fn = "hook"
  /\ loc' = [loc EXCEPT !.out = Some(HookOf(loc.arg))]
  /\ pc' = "applied"
  /\ UNCHANGED <<env, fs, hist, res>>

PureInputs ==
  AvgCutInputs \cup OcrInputs \cup WordsInputs \cup CutInputs
  \cup MarkerInputs \cup HookInputs

InitPure ==
  /\ pc = "apply"
  /\ loc \in PureInputs
  /\ env = [file |-> TRUE, openai |-> TRUE]
  /\ fs = [workDir |-> "none", upload |-> "none"]
  /\ hist = [ran |-> {}]
  /\ res = [status |-> 0, body |-> None, sent |-> 0]

NextPure ==
  \/ ApplyAvgCutSec
  \/ ApplyOcrLoop
  \/ ApplyWordsPerSec
  \/ ApplyCutTimeline
  \/ ApplyParseSilLines
  \/ ApplyHook

PureSpec == InitPure /\ [][NextPure]_vars

\* C11: for every duration D >= 0 and cut count C, avgCutSec is D / C
\* rounded to one decimal when C > 1 (it is the tenth nearest to D / C), and
\* D when C <= 1.
C11_AvgCutSec ==
  (Applied("avgCutSec") /\ ~loc.arg.dur.nan) =>
    LET D == loc.arg.dur.v
        C == loc.arg.cuts
        a == loc.out[1]
    IN  /\ ~a.nan
        /\ IF C > 1 THEN 2 * Abs(a.v * C - 10 * D) <= C ELSE a.v = 10 * D

\* The 24 s video with 10 cuts: avgCutSec is 2.4.
C11_Witness ==
  /\ Applied("avgCutSec")
  /\ loc.arg = [dur |-> Num(24), cuts |-> 10]
  /\ loc.out = Some(Num(24))

\* C12: for a media of duration > 0 and the silence markers the tool emits
\* for it (all within the media), silenceRatio lies in [0, 1], and it is 0
\* when no silence interval was detected.
C12_SilenceRatioInUnit ==
  ("derive" \in hist.ran /\ hist.probed # None
   /\ hist.probed[1].kind = "num" /\ hist.probed[1].v > 0
   /\ \A i \in 1..Len(loc.silences) : loc.silences[i].end <= hist.probed[1].v)
    => /\ ~loc.silenceRatio.nan
       /\ 0 <= loc.silenceRatio.num
       /\ loc.silenceRatio.num <= loc.silenceRatio.den
       /\ loc.silences = <<>> => loc.silenceRatio.num = 0

\* C13: the hook text is that of the earliest of the three frames (in the
\* order 0.0 s, 0.5 s, 1.0 s) whose OCR text is non-empty, OCR is not run on
\* the frames after it, and the text of a later frame is never returned
\* when an earlier frame has a text.
C13_EarliestFrame ==
  Applied("ocr") =>
    LET outs == loc.arg
        r == loc.out[1]
    IN  /\ \A i \in 1..3 :
             (outs[i] = "text" /\ \A j \in 1..(i - 1) : outs[j] = "blank")
               => (r.hookText = FrameText[i] /\ r.calls = i)
        /\ \A k \in 1..3 :
             r.hookText = FrameText[k]
               => (outs[k] = "text" /\ \A j \in 1..(k - 1) : outs[j] # "text")
        /\ (\A i \in 1..3 : outs[i] = "blank") => r.hookText = ""

\* The second frame is the first with a text, the third has one too.
C13_Witness ==
  /\ Applied("ocr")
  /\ loc.arg = <<"blank", "text", "text">>
  /\ loc.out = Some([hookText |-> "f1", calls |-> 2])

\* C14 as stated: wordsPerSec is absent when speech-seconds is 0 and is
\* otherwise exactly the word count divided by speech-seconds.
C14_WordsPerSecExact ==
  Applied("wordsPerSec") =>
    LET words == WordsTotal(loc.arg.transcript)
        speech == SpeechOf(loc.arg.segments)
        wps == loc.out[1]
    IN  /\ speech = 0 => wps = None
        /\ speech > 0 => (wps # None /\ wps[1] * speech = 400 * words)

\* C14: wordsPerSec is absent whenever speech-seconds is 0 (no segments, or
\* every segment with end <= start); when speech-seconds > 0 it is the word
\* count divided by speech-seconds, rounded to two decimals.
C14_WordsPerSecRounded ==
  Applied("wordsPerSec") =>
    LET words == WordsTotal(loc.arg.transcript)
        segs == IF loc.arg.segments = None THEN <<>> ELSE loc.arg.segments[1]
        speech == SpeechOf(loc.arg.segments)
        wps == loc.out[1]
    IN  /\ (\A i \in 1..Len(segs) : segs[i].end <= segs[i].start)
             => wps = None
        /\ speech = 0 => wps = None
        /\ speech > 0
             => (wps # None /\ 2 * Abs(wps[1] * speech - 400 * words) <= speech)

\* One word in three seconds of speech: 0.33 words per second.
C14_Witness ==
  /\ Applied("wordsPerSec")
  /\ loc.arg.transcript = Some(<<"w">>)
  /\ loc.arg.segments = Some(<<[start |-> 0, end |-> 12, text |-> <<"w">>]>>)
  /\ loc.out = Some(Some(33))

\* C15: the suggestions list of every report has at most 5 entries, each
\* a non-empty string, whether the item of the answer was a string or an
\* object with a tip.
C15_SuggestionsAreStrings ==
  res.status = 200 =>
    LET sug == Body["suggestions"][1]
    IN  /\ Len(sug) <= MaxSuggestions
        /\ \A i \in 1..Len(sug) : sug[i].t = "string" /\ sug[i].s # ""

\* C16: the suggestions call is bounded, so every request eventually
\* receives a response.
C16_EveryRequestAnswered == <>(res.sent > 0)

\* ------------------------------------------------- concurrent requests
\* Several requests in flight in the one server process. pc, loc and res
\* hold one entry per run; fs.dir and fs.file give for each name of
\* os.tmpdir() the run that created what is there now (0: nothing there);
\* hist.foreign records that a run touched what another run created.
MaxRuns == 2
Runs == 1..MaxRuns
DirNames == {"vid-a", "vid-b", "vid-c"}
UploadNames == {"upload-1", "upload-2"}

InitConc ==
  /\ pc = [r \in Runs |-> "upload"]
  /\ env = [file |-> TRUE, openai |-> TRUE]
  /\ fs = [dir |-> [d \in DirNames |-> 0], file |-> [n \in UploadNames |-> 0]]
  /\ loc = [r \in Runs |-> [workDir |-> "", inputPath |-> ""]]
  /\ hist = [foreign |-> FALSE]
  /\ res = [r \in Runs |-> 0]

\* The run r reads or writes under its workDir and reads its inputPath.
Touches(r) ==
  \/ loc[r].workDir # "" /\ fs.dir[loc[r].workDir] \notin {0, r}
  \/ loc[r].inputPath # "" /\ fs.file[loc[r].inputPath] \notin {0, r}

\* multer disk storage: the name is upload-<Date.now()>-<Math.random()>,
\* chosen without looking at the directory; the file is opened for writing
\* whether or not it exists.
StoreUpload(r) ==
  /\ pc[r] = "upload"
  /\ \E n \in UploadNames :
       /\ fs' = [fs EXCEPT !.file[n] = r]
       /\ loc' = [loc EXCEPT ![r].inputPath = n]
       /\ hist' = [hist EXCEPT !.foreign = @ \/ fs.file[n] \notin {0, r}]
  /\ pc' = [pc EXCEPT ![r] = "mkdtemp"]
  /\ UNCHANGED <<env, res>>

\* mkdtemp(os.tmpdir()/vid-): a new directory under a name that does not
\* exist at the time of the call.
MkdtempConc(r) ==
  /\ pc[r] = "mkdtemp"
  /\ \E d \in {x \in DirNames : fs.dir[x] = 0} :
       /\ fs' = [fs EXCEPT !.dir[d] = r]
       /\ loc' = [loc EXCEPT ![r].workDir = d]
  /\ pc' = [pc EXCEPT ![r] = "early"]
  /\ UNCHANGED <<env, hist, res>>

\* ffprobe, scene passes, silencedetect (read inputPath), screenshots and
\* OCR (write and read workDir); a probe error leaves through the outer
\* catch with the 500 answer.
EarlyStages(r) ==
  /\ pc[r] = "early"
  /\ hist' = [hist EXCEPT !.foreign = @ \/ Touches(r)]
  /\ \E probeOk \in BOOLEAN :
       IF probeOk
       THEN pc' = [pc EXCEPT ![r] = "rm"] /\ UNCHANGED res
       ELSE pc' = [pc EXCEPT ![r] = "done"] /\ res' = [res EXCEPT ![r] = 500]
  /\ UNCHANGED <<env, fs, loc>>

\* rm(workDir, { recursive, force })
RmConc(r) ==
  /\ pc[r] = "rm"
  /\ fs' = [fs EXCEPT !.dir[loc[r].workDir] = 0]
  /\ hist' = [hist EXCEPT !.foreign = @ \/ fs.dir[loc[r].workDir] \notin {0, r}]
  /\ pc' = [pc EXCEPT ![r] = "unlink"]
  /\ UNCHANGED <<env, loc, res>>

\* try { unlink(file.path) } catch {}
UnlinkConc(r) ==
  /\ pc[r] = "unlink"
  /\ fs' = [fs EXCEPT !.file[loc[r].inputPath] = 0]
  /\ hist' = [hist EXCEPT
                !.foreign = @ \/ fs.file[loc[r].inputPath] \notin {0, r}]
  /\ pc' = [pc EXCEPT ![r] = "late"]
  /\ UNCHANGED <<env, loc, res>>

\* After the cleanup: frame sampling into workDir and readdir(workDir),
\* audio extraction to workDir/audio.wav, volumedetect and signalstats on
\* inputPath; then the two completions and the answer.
LateStages(r) ==
  /\ pc[r] = "late"
  /\ hist' = [hist EXCEPT !.foreign = @ \/ Touches(r)]
  /\ pc' = [pc EXCEPT ![r] = "done"]
  /\ \E status \in {200, 502} : res' = [res EXCEPT ![r] = status]
  /\ UNCHANGED <<env, fs, loc>>

NextConc ==
  \E r \in Runs :
    \/ StoreUpload(r) \/ MkdtempConc(r) \/ EarlyStages(r)
    \/ RmConc(r) \/ UnlinkConc(r) \/ LateStages(r)

ConcSpec == InitConc /\ [][NextConc]_vars

Running(r) == pc[r] \notin {"upload", "done"}

\* C17: any two requests running at the same time have distinct working
\* directories and distinct upload files, and no run reads, writes or
\* deletes what another run created.
C17_RunsAreIsolated ==
  /\ ~hist.foreign
  /\ \A a, b \in Runs :
       (a # b /\ Running(a) /\ Running(b))
         => /\ loc[a].inputPath # loc[b].inputPath
            /\ (loc[a].workDir # "" /\ loc[b].workDir # "")
                 => loc[a].workDir # loc[b].workDir

\* C18: the durationSec of every report is a non-negative integer, for
\* every duration the probe can return.
C18_DurationNonNegative ==
  res.status = 200 =>
    /\ ~Body["durationSec"][1].nan
    /\ Body["durationSec"][1].v >= 0

\* C19: when the strict pass reports N > 0 scene changes the report has
\* cuts = N and a cutTimeline of exactly N timestamps.
C19_OneTimestampPerEvent ==
  (res.status = 200 /\ hist.strictEvents > 0) =>
    /\ Body["cuts"] = Some(hist.strictEvents)
    /\ Len(Body["cutTimeline"][1]) = hist.strictEvents

\* C20: the cutTimeline is sorted in non-decreasing order, from the strict
\* pass alone or from the union of both passes, whatever the order in
\* which the tool emits the timestamps.
C20_TimelineSorted ==
  Applied("cutTimeline") =>
    LET tl == loc.out[1]
    IN  \A i \in 1..(Len(tl) - 1) : tl[i] <= tl[i + 1]

\* C21: when both visual passes yield zero cuts, the count after the
\* silence stage is max(0, q - 1), q the number of silence intervals with
\* end - start >= 0.25 s, for lists of any length, and the timeline stays
\* empty.
C21_SilenceDerivedCount ==
  ("cuts" \in hist.ran /\ hist.visualCount = 0) =>
    LET q == Cardinality({i \in 1..Len(loc.silences) :
                            loc.silences[i].end - loc.silences[i].start >= 1})
    IN  /\ hist.silenceCount = (IF q > 1 THEN q - 1 ELSE 0)
        /\ loc.cutTimestamps = <<>>

\* Two qualifying silence intervals and no visual cut: one cut.
C21_Witness ==
  /\ "cuts" \in hist.ran /\ hist.visualCount = 0
  /\ Len(loc.silences) = 2
  /\ \A i \in 1..2 : loc.silences[i].end - loc.silences[i].start >= 1
  /\ hist.silenceCount = 1 /\ loc.cuts = 1

\* C22: when the frame-diff fallback runs over the sampled frames of the
\* video, the report has one cut for each adjacent pair of frames whose
\* relative size delta passes 0.15 and an empty timeline; without such a
\* pair cuts stays 0 and avgCutSec is the duration.
C22_FrameDiffCounts ==
  (res.status = 200 /\ "frameDiff" \in hist.ran) =>
    IF hist.frameJumps > 0
    THEN /\ Body["cuts"] = Some(hist.frameJumps)
         /\ Body["cutTimeline"] = Some(<<>>)
    ELSE /\ Body["cuts"] = Some(0)
         /\ ~loc.durationSec.nan
              => Body["avgCutSec"] = Some(Num(10 * loc.durationSec.v))

\* The intervals a marker sequence m describes: the k-th start marker
\* opens the k-th interval, whose end is the time of the last end marker
\* before the next start marker, or its own start when there is none.
StartsOf(m) == SortedSeq({i \in 1..Len(m) : m[i].kind = "start"})
ClosingOf(m, k) ==
  LET idx == StartsOf(m)
      nxt == IF k < Len(idx) THEN idx[k + 1] ELSE Len(m) + 1
  IN  {j \in (idx[k] + 1)..(nxt - 1) : m[j].kind = "end"}
IntervalsAsMarked(m, out) ==
  LET idx == StartsOf(m)
  IN  /\ Len(out) = Len(idx)
      /\ \A k \in 1..Len(idx) :
           /\ out[k].start = m[idx[k]].t
           /\ out[k].end = IF ClosingOf(m, k) = {} THEN m[idx[k]].t
                           ELSE m[CHOOSE j \in ClosingOf(m, k) :
                                    \A h \in ClosingOf(m, k) : h <= j].t
           /\ ClosingOf(m, k) = {} => out[k].end - out[k].start = 0

\* C23: for any sequence of markers each start opens an
\* interval, each end closes the most recently opened one, an interval
\* without end marker is in the list and contributes 0, and every interval
\* has end >= start.
C23_AnySequence ==
  Applied("silences") =>
    /\ IntervalsAsMarked(loc.arg, loc.out[1])
    /\ \A k \in 1..Len(loc.out[1]) : loc.out[1][k].end >= loc.out[1][k].start


\* C24: captionsPresent is true exactly when hookText is non-empty,
\* hookText has at most 80 characters, and when every frame gives an empty
\* text or the OCR fails hookText is empty and captionsPresent false.
C24_HookAndCaptions ==
  Applied("hook") =>
    LET o == loc.out[1]
    IN  /\ o.captionsPresent <=> o.hookText # <<>>
        /\ TextLen(o.hookText) <= 80
        /\ (\A i \in 1..3 :
              \/ loc.arg[i].threw
              \/ \A j \in 1..Len(loc.arg[i].text) : loc.arg[i].text[j].ch = " ")
             => (o.hookText = <<>> /\ ~o.captionsPresent)
        /\ (\E j \in 1..Len(loc.arg[1].text) : loc.arg[1].text[j].ch = "a")
             => o.captionsPresent

\* The first frame holds whitespace only, the second a word of 81
\* characters after a blank: the hook text is its first 80 characters.
C24_Witness ==
  /\ Applied("hook")
  /\ loc.arg[1].text = <<[ch |-> " ", n |-> 1]>> /\ ~loc.arg[1].threw
  /\ loc.arg[2].text = <<[ch |-> " ", n |-> 1], [ch |-> "a", n |-> 81]>>
  /\ loc.out = Some([hookText |-> <<[ch |-> "a", n |-> 80]>>,
                     captionsPresent |-> TRUE])


\* C25: first3Cuts is the number of entries of the reported cutTimeline
\* with timestamp <= 3 s, and is 0 whenever the cut count came from the
\* silence-derived or the frame-diff fallback.
C25_First3Cuts ==
  res.status = 200 =>
    LET tl == Body["cutTimeline"][1]
    IN  /\ Body["first3Cuts"] =
             Some(Cardinality({i \in 1..Len(tl) : tl[i] <= 12}))
        /\ ("silenceFallback" \in hist.ran \/ "frameDiff" \in hist.ran)
             => Body["first3Cuts"] = Some(0)

\* Reports with one cut at 0.5 s (counted) and with one at 3.5 s (not).
C25_Witness ==
  /\ res.status = 200
  /\ Body["cutTimeline"] = Some(<<2>>)
  /\ Body["first3Cuts"] = Some(1)


\* C26: the silence detection has settled (with a result or with an empty
\* list) before the silence-derived fallback or the frame-diff fallback
\* starts.
C26_SilenceBeforeFallbacks ==
  (\/ pc \in {"cuts", "frameSample", "frameDiff"}
   \/ hist.ran \cap {"cuts", "silenceFallback", "frameSample", "frameDiff"} # {})
    => "silence" \in hist.ran

\* The silence detection ran, the silence-derived fallback ran on its
\* intervals and found no cut, and the frame-diff fallback started.
C26_Witness ==
  /\ {"silence", "silenceFallback", "frameSample"} \subseteq hist.ran
  /\ Len(loc.silences) > 1


\* C27: the stages that write or read under the working directory (frame
\* sampling and readdir of the frame-diff fallback, audio extraction and
\* the read of audio.wav for the transcription) run only while the
\* working directory exists.
C27_NoUseAfterRemoval ==
  hist.ran \cap {"frameSample", "frameDiff", "audio", "transcribe"} # {}
    => fs.workDir = "exists"


\* C28: in every report cutTimeline is empty or cuts is its length, and
\* first3Cuts <= cuts.
C28_CutsMatchTimeline ==
  res.status = 200 =>
    LET tl == Body["cutTimeline"][1]
        cuts == Body["cuts"][1]
    IN  /\ tl = <<>> \/ cuts = Len(tl)
        /\ Body["first3Cuts"][1] <= cuts

\* A report with a timeline of two entries within the first 3 s.
C28_Witness ==
  /\ res.status = 200
  /\ Len(Body["cutTimeline"][1]) = 2
  /\ Body["cuts"] = Some(2) /\ Body["first3Cuts"] = Some(2)


\* C29: every request sends exactly one response: never a second one, and
\* eventually one.
C29_ExactlyOneResponse == [](res.sent <= 1) /\ <>(res.sent = 1)


\* C30: when the suggestions call succeeded and the critique call throws,
\* the request still answers with the 200 report, with the metrics and the
\* suggestions computed before the call and without critique.
C30_CritiqueFailureNotFatal ==
  hist.critThrew =>
    /\ res.status = 200 /\ res.sent = 1
    /\ "critique" \notin DOMAIN Body
    /\ Body["suggestions"] = Some(loc.suggestions)
    /\ Body["durationSec"] = Some(loc.durationSec)
    /\ Body["cuts"] = Some(loc.cuts)
    /\ Body["avgCutSec"] = Some(loc.avgCutSec)
    /\ Body["cutTimeline"] = Some(loc.cutTimestamps)
    /\ Body["first3Cuts"] = Some(loc.first3Cuts)
    /\ Body["hookText"] = Some(loc.hookText)
    /\ Body["captionsPresent"] = Some(loc.captionsPresent)
    /\ Body["silences"] = Some(loc.silences)
    /\ Body["silenceRatio"] = Some(loc.silenceRatio)

\* The critique call threw after a suggestions call that gave a tip.
C30_Witness ==
  /\ hist.critThrew /\ hist.sugKind = "array"
  /\ res.status = 200
  /\ Body["suggestions"] = Some(<<Str("trim the intro")>>)

====
